---- MODULE Spec2Model ----
(***************************************************************************)
(* The append-only ledger of src/utils/blockchain.py (classes Block and    *)
(* Blockchain): hash-linked blocks of medical records, proof-of-work       *)
(* mining, a pending queue, validation, patient/doctor queries and the     *)
(* pickle snapshot at data/blockchain.pkl.                                 *)
(*                                                                         *)
(* Python objects.  A record handed to add_record is a dict OBJECT: the    *)
(* queue and the blocks hold references to it.  `objs` is the heap, from   *)
(* object identity to the dict's current content; a dict is a function     *)
(* from its keys to their values.  pending_records and Block.records are   *)
(* sequences of object identities.                                         *)
(*                                                                         *)
(* Strings of hex digits.  A digest is a sequence: its first two elements  *)
(* are its two leading hex digits and its third element stands for the     *)
(* remaining 62, which (SHA-256 being collision free for what this model   *)
(* can reach) determine the hashed text.  The sentinel "0" is <<0>>.       *)
(***************************************************************************)
EXTENDS Integers, Sequences, FiniteSets, TLC

VARIABLES
    chain,            \* Blockchain.chain: sequence of Block objects
    difficulty,       \* Blockchain.difficulty
    pending_records,  \* Blockchain.pending_records: sequence of object ids
    objs,             \* heap: object id -> content of the record object
    now,              \* wall clock read by time.time() / datetime.now()
    file,             \* content of data/blockchain.pkl
    pc,               \* "idle", or "mining" inside mine_pending_records
    new_block,        \* local new_block of mine_pending_records
    ret,              \* outcome of the call that has just returned
    entry,            \* chain, queue and heap as they were when the
                      \* running mine_pending_records was called
    backup,           \* contents of the files data/blockchain.pkl.<t>.bak
    peer              \* the Blockchain object of a second session, if any

vars == <<chain, difficulty, pending_records, objs, now, file, pc,
          new_block, ret, entry, backup, peer>>

(***************************************************************************)
(* Bounds of the model.                                                    *)
(***************************************************************************)
MaxWork    == 5   \* submissions, commits and clock ticks of a run
HashPeriod == 4   \* distinct leading-digit pairs the digest takes

(***************************************************************************)
(* Program constants.                                                      *)
(***************************************************************************)
InitialDifficulty == 2
GenesisIndex      == 0
GenesisObj        == 0   \* identity of the genesis sentinel string

GenesisRecord == [str |-> "Genesis Block - EHR Blockchain System"]
GenesisPreviousHash == <<0>>

None == "None"

\* isinstance(record, dict): everything on the heap is a dict but the
\* genesis sentinel string.
IsDict(v) == "str" \notin DOMAIN v

\* the record dicts the callers submit
RecordInputs ==
    { [patient_id |-> "P1", doctor_id |-> "D1"],
      [diagnosis |-> "flu"] }

PatientIds == {"P1", "P3"}
DoctorIds  == {"D1"}

\* dict.get(key)
Get(d, k) == IF k \in DOMAIN d THEN d[k] ELSE None

\* d[key] = value
SetItem(d, k, v) ==
    [x \in DOMAIN d \cup {k} |-> IF x = k THEN v ELSE d[x]]

\* list of the record contents a list of references denotes
Deref(recs, heap) == [i \in DOMAIN recs |-> heap[recs[i]]]

\* what a record contributes to the leading digits of a digest
ContentWeight(v) ==
    Cardinality(DOMAIN v)
    + (IF "timestamp" \in DOMAIN v THEN v["timestamp"] ELSE 0)

RECURSIVE SumWeights(_)
SumWeights(vals) ==
    IF vals = <<>> THEN 0
    ELSE ContentWeight(Head(vals)) + SumWeights(Tail(vals))

\* s[:n]
Prefix(s, n) == SubSeq(s, 1, IF n < Len(s) THEN n ELSE Len(s))

\* '0' * n
Zeros(n) == [i \in 1..n |-> 0]

RECURSIVE CountRecords(_)
CountRecords(c) ==
    IF c = <<>> THEN 0 ELSE Len(Head(c).records) + CountRecords(Tail(c))

\* what a run has done so far: the records it submitted, the blocks it
\* committed and the clock ticks it saw
Work(c, p, t) == CountRecords(Tail(c)) + (Len(c) - 1) + Len(p) + t

NoBlock == [index |-> -1, timestamp |-> 0, records |-> <<>>,
            previous_hash |-> <<>>, nonce |-> 0, hash |-> <<>>]

(***************************************************************************)
(* Block                                                                   *)
(***************************************************************************)

\* Block.calculate_hash: SHA-256 of the JSON text of the five fields, the
\* records as they are now on the heap.
calculate_hash(b, heap) ==
    LET text == <<b.index, b.timestamp, Deref(b.records, heap),
                  b.previous_hash, b.nonce>>
        v    == (b.index + b.timestamp + SumWeights(text[3])
                 + Len(b.previous_hash) + b.nonce) % HashPeriod
    IN  <<v \div 2, v % 2, text>>

\* Block.__init__
Block(index, timestamp, records, previous_hash, heap) ==
    LET b == [index |-> index, timestamp |-> timestamp, records |-> records,
              previous_hash |-> previous_hash, nonce |-> 0, hash |-> <<>>]
    IN  [b EXCEPT !.hash = calculate_hash(b, heap)]

\* a loop condition that compares one character too few
NeedsMiningOneShort(b, d) == Prefix(b.hash, d - 1) # Zeros(d - 1)

\* the loop condition of Block.mine_block
NeedsMining(b, d) == Prefix(b.hash, d) # Zeros(d)

\* an iteration that computes the hash before it increments the nonce
mine_iteration_stale(b, heap) ==
    LET b1 == [b EXCEPT !.hash = calculate_hash(b, heap)]
    IN  [b1 EXCEPT !.nonce = @ + 1]

\* one iteration of the loop of Block.mine_block
mine_iteration(b, heap) ==
    LET b1 == [b EXCEPT !.nonce = @ + 1]
    IN  [b1 EXCEPT !.hash = calculate_hash(b1, heap)]

\* Block.mine_block, run to its end
RECURSIVE mine_block(_, _, _)
mine_block(b, d, heap) ==
    IF NeedsMining(b, d) THEN mine_block(mine_iteration(b, heap), d, heap)
    ELSE b

(***************************************************************************)
(* Blockchain: pure parts                                                  *)
(***************************************************************************)

\* a get_latest_block that returns chain[0] for chain[-1]
get_latest_block_first(c) == c[1]

get_latest_block(c) == c[Len(c)]

\* Blockchain.is_chain_valid
is_chain_valid(c, heap) ==
    \A i \in 2..Len(c) :
        /\ c[i].hash = calculate_hash(c[i], heap)
        /\ c[i].previous_hash = c[i-1].hash

\* record.copy() with the three block keys added
Decorate(v, b) ==
    SetItem(SetItem(SetItem(v, "block_index", b.index),
                    "block_hash", b.hash),
            "block_timestamp", b.timestamp)

\* an inner loop that puts each match in front of the earlier ones
RECURSIVE MatchesInBlockReversed(_, _, _, _)
MatchesInBlockReversed(vals, b, key, id) ==
    IF vals = <<>> THEN <<>>
    ELSE LET v == Head(vals)
             rest == MatchesInBlockReversed(Tail(vals), b, key, id)
         IN  IF IsDict(v) /\ Get(v, key) = id
             THEN rest \o <<Decorate(v, b)>>
             ELSE rest

RECURSIVE MatchesInBlock(_, _, _, _)
MatchesInBlock(vals, b, key, id) ==
    IF vals = <<>> THEN <<>>
    ELSE LET v == Head(vals)
             rest == MatchesInBlock(Tail(vals), b, key, id)
         IN  IF IsDict(v) /\ Get(v, key) = id
             THEN <<Decorate(v, b)>> \o rest
             ELSE rest

RECURSIVE MatchesInChain(_, _, _, _)
MatchesInChain(c, heap, key, id) ==
    IF c = <<>> THEN <<>>
    ELSE MatchesInBlock(Deref(Head(c).records, heap), Head(c), key, id)
         \o MatchesInChain(Tail(c), heap, key, id)

get_records_for_patient(c, heap, patient_id) ==
    MatchesInChain(c, heap, "patient_id", patient_id)

get_records_for_doctor(c, heap, doctor_id) ==
    MatchesInChain(c, heap, "doctor_id", doctor_id)

\* pickle.dump(self, f): the object graph by value
\* a dump that leaves the queue out
PickleChainOnly(c, d, p, heap) ==
    [kind |-> "pickle", chain |-> c, difficulty |-> d,
     pending_records |-> <<>>, objs |-> heap]

Pickle(c, d, p, heap) ==
    [kind |-> "pickle", chain |-> c, difficulty |-> d,
     pending_records |-> p, objs |-> heap]

NoFile == [kind |-> "absent"]
Truncated == [kind |-> "truncated"]

\* Blockchain.save: open(..., "wb") may fail and leave the file alone, the
\* dump may fail after open has emptied the file, or the file is written.
SaveOutcomes == {"written", "open_failed", "dump_failed"}

\* a save that dumps the chain as it was before the last append
save_before_append(outcome, old, c, d, p, heap) ==
    CASE outcome = "written"     -> Pickle(SubSeq(c, 1, Len(c) - 1), d, p,
                                           heap)
      [] outcome = "open_failed" -> old
      [] outcome = "dump_failed" -> Truncated

save(outcome, old, c, d, p, heap) ==
    CASE outcome = "written"     -> Pickle(c, d, p, heap)
      [] outcome = "open_failed" -> old
      [] outcome = "dump_failed" -> Truncated

Returned(op, v) == [op |-> op, raised |-> FALSE, val |-> v]
Raised(op)      == [op |-> op, raised |-> TRUE, val |-> 0]
NoCall          == Returned("none", 0)
\* an exception of the given type leaves the call
RaisedError(op, exc) ==
    [op |-> op, raised |-> TRUE, val |-> 0, exc |-> exc]

NoEntry == [chain |-> <<>>, pending_records |-> <<>>, objs |-> <<>>]

\* no second session has been opened
NoPeer == [chain |-> <<>>, difficulty |-> 0, pending_records |-> <<>>,
           objs |-> <<>>]

(***************************************************************************)
(* Blockchain.__init__ and add_genesis_block: the state after              *)
(* construction, the genesis block mined and the snapshot written.         *)
(***************************************************************************)
\* a genesis block built with the default previous_hash=''
add_genesis_block_default(c, d, t, heap) ==
    Append(c, mine_block(Block(GenesisIndex, t, <<GenesisObj>>, <<>>, heap),
                         d, heap))

add_genesis_block(c, d, t, heap) ==
    Append(c, mine_block(Block(GenesisIndex, t, <<GenesisObj>>,
                               GenesisPreviousHash, heap), d, heap))

Init ==
    /\ now = 0
    /\ objs = (GenesisObj :> GenesisRecord)
    /\ difficulty = InitialDifficulty
    /\ pending_records = <<>>
    /\ chain = add_genesis_block(<<>>, difficulty, now, objs)
    /\ file = Pickle(chain, difficulty, pending_records, objs)
    /\ pc = "idle"
    /\ new_block = NoBlock
    /\ ret = Returned("__init__", 0)
    /\ entry = NoEntry
    /\ backup = {}
    /\ peer = NoPeer

(***************************************************************************)
(* The clock                                                               *)
(***************************************************************************)
Tick ==
    /\ pc = "idle"
    /\ Work(chain, pending_records, now) < MaxWork
    /\ now' = now + 1
    /\ ret' = NoCall
    /\ UNCHANGED <<peer, backup, chain, difficulty, pending_records, objs, file, pc,
                   new_block, entry>>

(***************************************************************************)
(* Blockchain.add_record(record)                                           *)
(***************************************************************************)
\* an add_record that inserts at the head of the queue
add_record_obj_front(id, content) ==
    /\ pc = "idle"
    /\ Work(chain, pending_records, now) < MaxWork
    /\ objs' = (id :> SetItem(content, "timestamp", now)) @@ objs
    /\ pending_records' = <<id>> \o pending_records
    /\ ret' = Returned("add_record",
                       [len |-> Len(pending_records'), record |-> id])
    /\ UNCHANGED <<peer, backup, chain, difficulty, now, file, pc, new_block, entry>>

\* record['timestamp'] = ...; pending_records.append(record); return len
add_record_obj(id, content) ==
    /\ pc = "idle"
    /\ Work(chain, pending_records, now) < MaxWork
    /\ objs' = (id :> SetItem(content, "timestamp", now)) @@ objs
    /\ pending_records' = Append(pending_records, id)
    /\ ret' = Returned("add_record",
                       [len |-> Len(pending_records'), record |-> id])
    /\ UNCHANGED <<peer, backup, chain, difficulty, now, file, pc, new_block, entry>>

\* the caller passes a dict it has just built
add_record_fresh ==
    \E content \in RecordInputs :
        /\ add_record_obj(Cardinality(DOMAIN objs), content)

\* the caller passes a dict object it has passed before
add_record_again ==
    \E id \in DOMAIN objs \ {GenesisObj} :
        add_record_obj(id, objs[id])

add_record == add_record_fresh \/ add_record_again

(***************************************************************************)
(* Blockchain.mine_pending_records()                                       *)
(***************************************************************************)
\* a mine_pending_records without the early return: it goes on to mine a
\* block of no records
mine_pending_records_empty_mines ==
    /\ pc = "idle"
    /\ pending_records = <<>>
    /\ Work(chain, pending_records, now) < MaxWork
    /\ new_block' = Block(Len(chain), now, pending_records,
                          get_latest_block(chain).hash, objs)
    /\ pc' = "mining"
    /\ entry' = [chain |-> chain, pending_records |-> pending_records,
                 objs |-> objs]
    /\ ret' = NoCall
    /\ UNCHANGED <<peer, backup, chain, difficulty, pending_records, objs, now, file>>

\* if not self.pending_records: return False
mine_pending_records_empty ==
    /\ pc = "idle"
    /\ pending_records = <<>>
    /\ ret' = Returned("mine_pending_records", FALSE)
    /\ UNCHANGED <<peer, backup, chain, difficulty, pending_records, objs, now, file, pc,
                   new_block, entry>>

\* a begin that numbers the new block from 1
mine_pending_records_begin_index ==
    /\ pc = "idle"
    /\ pending_records # <<>>
    /\ Work(chain, pending_records, now) < MaxWork
    /\ new_block' = Block(Len(chain) + 1, now, pending_records,
                          get_latest_block(chain).hash, objs)
    /\ pc' = "mining"
    /\ entry' = [chain |-> chain, pending_records |-> pending_records,
                 objs |-> objs]
    /\ ret' = NoCall
    /\ UNCHANGED <<peer, backup, chain, difficulty, pending_records, objs, now, file>>

\* a begin that clears the queue before the block is mined
mine_pending_records_begin_clears ==
    /\ pc = "idle"
    /\ pending_records # <<>>
    /\ Work(chain, pending_records, now) < MaxWork
    /\ new_block' = Block(Len(chain), now, pending_records,
                          get_latest_block(chain).hash, objs)
    /\ pc' = "mining"
    /\ entry' = [chain |-> chain, pending_records |-> pending_records,
                 objs |-> objs]
    /\ ret' = NoCall
    /\ pending_records' = <<>>
    /\ UNCHANGED <<peer, backup, chain, difficulty, objs, now, file>>

\* new_block = Block(len(chain), time.time(), pending_records.copy(), tip.hash)
mine_pending_records_begin ==
    /\ pc = "idle"
    /\ pending_records # <<>>
    /\ Work(chain, pending_records, now) < MaxWork
    /\ new_block' = Block(Len(chain), now, pending_records,
                          get_latest_block(chain).hash, objs)
    /\ pc' = "mining"
    /\ entry' = [chain |-> chain, pending_records |-> pending_records,
                 objs |-> objs]
    /\ ret' = NoCall
    /\ UNCHANGED <<peer, backup, chain, difficulty, pending_records, objs, now, file>>

\* one iteration of new_block.mine_block(self.difficulty)
mine_pending_records_search ==
    /\ pc = "mining"
    /\ NeedsMining(new_block, difficulty)
    /\ new_block' = mine_iteration(new_block, objs)
    /\ UNCHANGED <<peer, backup, chain, difficulty, pending_records, objs, now, file, pc,
                   ret, entry>>

\* a finish that undoes the commit when save fails: the block is dropped
\* and the queue kept
mine_pending_records_finish_rollback(outcome) ==
    /\ pc = "mining"
    /\ ~NeedsMining(new_block, difficulty)
    /\ chain' = IF outcome = "written" THEN Append(chain, new_block)
                ELSE chain
    /\ pending_records' = IF outcome = "written" THEN <<>>
                          ELSE pending_records
    /\ file' = save(outcome, file, chain', difficulty, pending_records', objs)
    /\ ret' = IF outcome = "written"
              THEN Returned("mine_pending_records", TRUE)
              ELSE RaisedError("mine_pending_records", "OSError")
    /\ pc' = "idle"
    /\ new_block' = NoBlock
    /\ entry' = NoEntry
    /\ UNCHANGED <<peer, backup, difficulty, objs, now>>

\* the loop has ended: append, clear the queue, save, return True (or the
\* exception of save leaves the call)
mine_pending_records_finish(outcome) ==
    /\ pc = "mining"
    /\ ~NeedsMining(new_block, difficulty)
    /\ chain' = Append(chain, new_block)
    /\ pending_records' = <<>>
    /\ file' = save(outcome, file, chain', difficulty, pending_records', objs)
    /\ ret' = IF outcome = "written"
              THEN Returned("mine_pending_records", TRUE)
              ELSE RaisedError("mine_pending_records", "OSError")
    /\ pc' = "idle"
    /\ new_block' = NoBlock
    /\ entry' = NoEntry
    /\ UNCHANGED <<peer, backup, difficulty, objs, now>>

mine_pending_records_commit == mine_pending_records_finish("written")

\* the call is interrupted inside the nonce search (an exception such as
\* KeyboardInterrupt unwinds mine_block and mine_pending_records)
mine_pending_records_abandon ==
    /\ pc = "mining"
    /\ pc' = "idle"
    /\ new_block' = NoBlock
    /\ ret' = Raised("mine_pending_records")
    /\ entry' = NoEntry
    /\ UNCHANGED <<peer, backup, chain, difficulty, pending_records, objs, now, file>>

(***************************************************************************)
(* Read-only calls and save                                                *)
(***************************************************************************)
\* an is_chain_valid that repairs: it cuts an invalid chain back to its
\* genesis block
call_is_chain_valid_repairs ==
    /\ pc = "idle"
    /\ ret' = Returned("is_chain_valid", is_chain_valid(chain, objs))
    /\ chain' = IF is_chain_valid(chain, objs) THEN chain ELSE <<chain[1]>>
    /\ UNCHANGED <<peer, backup, difficulty, pending_records, objs, now, file, pc,
                   new_block, entry>>

call_is_chain_valid ==
    /\ pc = "idle"
    /\ ret' = Returned("is_chain_valid", is_chain_valid(chain, objs))
    /\ UNCHANGED <<peer, backup, chain, difficulty, pending_records, objs, now, file, pc,
                   new_block, entry>>

call_get_records_for_patient ==
    /\ pc = "idle"
    /\ \E p \in PatientIds :
          ret' = Returned("get_records_for_patient",
                          get_records_for_patient(chain, objs, p))
    /\ UNCHANGED <<peer, backup, chain, difficulty, pending_records, objs, now, file, pc,
                   new_block, entry>>

call_get_records_for_doctor ==
    /\ pc = "idle"
    /\ \E d \in DoctorIds :
          ret' = Returned("get_records_for_doctor",
                          get_records_for_doctor(chain, objs, d))
    /\ UNCHANGED <<peer, backup, chain, difficulty, pending_records, objs, now, file, pc,
                   new_block, entry>>

call_save_outcome(outcome) ==
    /\ pc = "idle"
    /\ file' = save(outcome, file, chain, difficulty, pending_records, objs)
    /\ ret' = IF outcome = "written" THEN Returned("save", 0)
              ELSE Raised("save")
    /\ UNCHANGED <<peer, backup, chain, difficulty, pending_records, objs, now, pc,
                   new_block, entry>>

call_save == call_save_outcome("written")

(***************************************************************************)
(* Spec: one Blockchain object and its callers, the snapshot file          *)
(* writable.                                                               *)
(***************************************************************************)
Next ==
    \/ Tick
    \/ add_record_fresh
    \/ add_record_again
    \/ mine_pending_records_empty
    \/ mine_pending_records_begin
    \/ mine_pending_records_search
    \/ mine_pending_records_commit
    \/ mine_pending_records_abandon
    \/ call_is_chain_valid
    \/ call_get_records_for_patient
    \/ call_get_records_for_doctor
    \/ call_save

Spec == Init /\ [][Next]_vars

(***************************************************************************)
(* SpecFaults: the same object with a snapshot file that may fail to open  *)
(* (permissions) or to take the whole dump (disk full).                    *)
(***************************************************************************)
mine_pending_records_commit_fails ==
    \E outcome \in SaveOutcomes \ {"written"} :
        mine_pending_records_finish(outcome)

call_save_fails ==
    \E outcome \in SaveOutcomes \ {"written"} : call_save_outcome(outcome)

NextFaults ==
    \/ Tick
    \/ add_record_fresh
    \/ add_record_again
    \/ mine_pending_records_empty
    \/ mine_pending_records_begin
    \/ mine_pending_records_search
    \/ mine_pending_records_commit
    \/ mine_pending_records_commit_fails
    \/ mine_pending_records_abandon
    \/ call_save
    \/ call_save_fails

SpecFaults == Init /\ [][NextFaults]_vars

(***************************************************************************)
(* SpecTamper: a chain built by add_record and mine_pending_records, every *)
(* record a dict of its own, then one field of one stored block changed    *)
(* behind the object's back, then is_chain_valid().                        *)
(***************************************************************************)
BlockFields ==
    {"index", "timestamp", "records", "previous_hash", "nonce", "hash"}

\* the block with one field changed and nothing recomputed
Tampered(b, field) ==
    CASE field = "index"         -> [b EXCEPT !.index = @ + 1]
      [] field = "timestamp"     -> [b EXCEPT !.timestamp = @ + 1]
      [] field = "records"       ->
            [b EXCEPT !.records = SubSeq(@, 1, Len(@) - 1)]
      [] field = "previous_hash" -> [b EXCEPT !.previous_hash = <<1>>]
      [] field = "nonce"         -> [b EXCEPT !.nonce = @ + 1]
      [] field = "hash"          -> [b EXCEPT !.hash = <<1>>]

tamper ==
    /\ pc = "idle"
    /\ \E i \in 1..Len(chain), field \in BlockFields :
          /\ chain' = [chain EXCEPT ![i] = Tampered(@, field)]
          /\ ret' = Returned("tamper", [index |-> i - 1, field |-> field])
    /\ pc' = "tampered"
    /\ entry' = [chain |-> chain, pending_records |-> pending_records,
                 objs |-> objs]
    /\ UNCHANGED <<peer, backup, difficulty, pending_records, objs, now, file,
                   new_block>>

call_is_chain_valid_tampered ==
    /\ pc = "tampered"
    /\ ret' = Returned("is_chain_valid", is_chain_valid(chain, objs))
    /\ UNCHANGED <<peer, backup, chain, difficulty, pending_records, objs, now,
                   file, pc, new_block, entry>>

NextTamper ==
    \/ Tick
    \/ add_record_fresh
    \/ mine_pending_records_empty
    \/ mine_pending_records_begin
    \/ mine_pending_records_search
    \/ mine_pending_records_commit
    \/ mine_pending_records_abandon
    \/ tamper
    \/ call_is_chain_valid_tampered

SpecTamper == Init /\ [][NextTamper]_vars

(***************************************************************************)
(* SpecSession: the snapshot file across sessions.  A session builds its   *)
(* Blockchain in initialize_session_state, the welcome page reads the      *)
(* snapshot again, a caller may use Blockchain.load(), and the file may be *)
(* damaged or edited between two sessions.                                 *)
(***************************************************************************)
Empty   == [kind |-> "empty"]
Garbage == [kind |-> "garbage"]

GenesisHeap == (GenesisObj :> GenesisRecord)

\* Blockchain(): __init__ sets the fields and add_genesis_block mines the
\* genesis block; the save it ends with is PickleOf(Blockchain(t))
Blockchain(t) ==
    [chain |-> add_genesis_block(<<>>, InitialDifficulty, t, GenesisHeap),
     difficulty |-> InitialDifficulty,
     pending_records |-> <<>>,
     objs |-> GenesisHeap]

PickleOf(bc) == Pickle(bc.chain, bc.difficulty, bc.pending_records, bc.objs)

\* pickle.load of a written snapshot: the object graph as it was dumped
Unpickle(f) ==
    [chain |-> f.chain, difficulty |-> f.difficulty,
     pending_records |-> f.pending_records, objs |-> f.objs]

\* what open + pickle.load can do with the file
LoadOutcomes(f) ==
    CASE f.kind = "pickle"    -> {"loaded"}
      [] f.kind = "absent"    -> {"FileNotFoundError"}
      [] f.kind = "empty"     -> {"EOFError"}
      [] f.kind = "garbage"   -> {"UnpicklingError"}
      [] f.kind = "truncated" -> {"UnpicklingError", "EOFError"}

\* the timestamped backup path takes the content; a path of the same
\* second is replaced
Renamed(bk, f, t) ==
    {b \in bk : b.path # t} \cup {[path |-> t, content |-> f]}

\* safe_load_pickle(file_path, default_value): the value it returns, the file
\* and the backups it leaves
safe_load_pickle(f, default_value, bk, t, outcome) ==
    CASE outcome = "loaded" ->
           [value |-> Unpickle(f), file |-> f, backup |-> bk]
      [] outcome = "UnpicklingError" ->
           [value |-> default_value, file |-> NoFile,
            backup |-> Renamed(bk, f, t)]
      [] OTHER ->
           [value |-> default_value, file |-> f, backup |-> bk]

\* safe_save_pickle: temporary file, then os.replace
safe_save_pickle(bc) == PickleOf(bc)

\* a load that catches FileNotFoundError alone
load_missing_only(f, t, outcome) ==
    CASE outcome = "loaded" ->
           [raised |-> FALSE, value |-> Unpickle(f), file |-> f]
      [] outcome = "FileNotFoundError" ->
           [raised |-> FALSE, value |-> Blockchain(t),
            file |-> PickleOf(Blockchain(t))]
      [] OTHER ->
           [raised |-> TRUE, value |-> Blockchain(t), file |-> f]

\* Blockchain.load(): only FileNotFoundError and EOFError are caught, and
\* the Blockchain() built for them saves itself
load(f, t, outcome) ==
    CASE outcome = "loaded" ->
           [raised |-> FALSE, value |-> Unpickle(f), file |-> f]
      [] outcome \in {"FileNotFoundError", "EOFError"} ->
           [raised |-> FALSE, value |-> Blockchain(t),
            file |-> PickleOf(Blockchain(t))]
      [] OTHER ->
           [raised |-> TRUE, value |-> Blockchain(t), file |-> f]

\* initialize_session_state of a session that has no blockchain yet.  The
\* argument Blockchain() of safe_load_pickle is built, and saved, before
\* safe_load_pickle runs.
initialize_session_state ==
    /\ pc = "idle"
    /\ LET default_value == Blockchain(now)
           written       == PickleOf(default_value)
       IN  \E outcome \in LoadOutcomes(written) :
             LET loaded     == safe_load_pickle(written, default_value,
                                                backup, now, outcome)
                 valid      == is_chain_valid(loaded.value.chain,
                                              loaded.value.objs)
                 blockchain == IF valid THEN loaded.value ELSE Blockchain(now)
             IN  /\ chain' = blockchain.chain
                 /\ difficulty' = blockchain.difficulty
                 /\ pending_records' = blockchain.pending_records
                 /\ objs' = blockchain.objs
                 /\ file' = safe_save_pickle(blockchain)
                 /\ backup' = loaded.backup
                 /\ ret' = Returned("initialize_session_state",
                                    [chain |-> blockchain.chain])
    /\ UNCHANGED <<peer, now, pc, new_block, entry>>

\* the system statistics of welcome_page: the same call, into a local
welcome_page ==
    /\ pc = "idle"
    /\ LET default_value == Blockchain(now)
           written       == PickleOf(default_value)
       IN  \E outcome \in LoadOutcomes(written) :
             LET loaded == safe_load_pickle(written, default_value,
                                            backup, now, outcome)
             IN  /\ file' = loaded.file
                 /\ backup' = loaded.backup
                 /\ ret' = Returned("welcome_page",
                                    [chain |-> loaded.value.chain])
    /\ UNCHANGED <<peer, chain, difficulty, pending_records, objs, now, pc,
                   new_block, entry>>

\* bc = Blockchain.load()
call_load ==
    /\ pc = "idle"
    /\ \E outcome \in LoadOutcomes(file) :
         LET r == load(file, now, outcome)
         IN  IF r.raised
             THEN /\ ret' = RaisedError("load", outcome)
                  /\ UNCHANGED <<chain, difficulty, pending_records, objs,
                                 file>>
             ELSE /\ ret' = Returned("load", [chain |-> r.value.chain])
                  /\ chain' = r.value.chain
                  /\ difficulty' = r.value.difficulty
                  /\ pending_records' = r.value.pending_records
                  /\ objs' = r.value.objs
                  /\ file' = r.file
    /\ UNCHANGED <<peer, backup, now, pc, new_block, entry>>

\* the snapshot file becomes unreadable, is emptied or is removed between
\* two sessions
corrupt_file ==
    /\ pc = "idle"
    /\ file.kind = "pickle"
    /\ \E f \in {Garbage, Truncated, Empty, NoFile} : file' = f
    /\ ret' = Returned("corrupt_file", 0)
    /\ UNCHANGED <<peer, backup, chain, difficulty, pending_records, objs, now, pc,
                   new_block, entry>>

\* somebody edits the hash of a block in the snapshot file the session
\* wrote: it still parses
tamper_file ==
    /\ pc = "idle"
    /\ file = Pickle(chain, difficulty, pending_records, objs)
    /\ \E i \in 1..Len(file.chain) :
         file' = [file EXCEPT !.chain[i] = Tampered(@, "hash")]
    /\ ret' = Returned("tamper_file", 0)
    /\ UNCHANGED <<peer, backup, chain, difficulty, pending_records, objs, now, pc,
                   new_block, entry>>

NextSession ==
    \/ Tick
    \/ add_record_fresh
    \/ mine_pending_records_begin
    \/ mine_pending_records_search
    \/ mine_pending_records_commit
    \/ initialize_session_state
    \/ welcome_page
    \/ call_load
    \/ corrupt_file
    \/ tamper_file

SpecSession == Init /\ [][NextSession]_vars

(***************************************************************************)
(* SpecRoundTrip: one Blockchain object whose caller saves it and loads    *)
(* the snapshot back.                                                      *)
(***************************************************************************)
NextRoundTrip ==
    \/ Tick
    \/ add_record_fresh
    \/ add_record_again
    \/ mine_pending_records_begin
    \/ mine_pending_records_search
    \/ mine_pending_records_commit
    \/ call_save
    \/ call_load

SpecRoundTrip == Init /\ [][NextRoundTrip]_vars

(***************************************************************************)
(* SpecLoad: a caller of Blockchain.load() and a snapshot file that may be *)
(* missing, empty or unreadable when it is read.                           *)
(***************************************************************************)
NextLoad ==
    \/ Tick
    \/ add_record_fresh
    \/ mine_pending_records_begin
    \/ mine_pending_records_search
    \/ mine_pending_records_commit
    \/ corrupt_file
    \/ call_load

SpecLoad == Init /\ [][NextLoad]_vars

(***************************************************************************)
(* SpecDocument: a caller that turns its Blockchain into a document with   *)
(* to_dict and builds a Blockchain from a document with from_dict; the     *)
(* document may come from an earlier variant without pending_records.      *)
(***************************************************************************)
\* Block.to_dict
Block_to_dict(b) ==
    [index |-> b.index, timestamp |-> b.timestamp, records |-> b.records,
     previous_hash |-> b.previous_hash, nonce |-> b.nonce, hash |-> b.hash]

\* Block.from_dict: the constructor computes a hash, then nonce and hash
\* are taken from the document
Block_from_dict(block_dict, heap) ==
    [Block(block_dict["index"], block_dict["timestamp"],
           block_dict["records"], block_dict["previous_hash"], heap)
       EXCEPT !.nonce = block_dict["nonce"], !.hash = block_dict["hash"]]

\* Blockchain.to_dict
to_dict(c, d, p) ==
    [chain |-> [i \in 1..Len(c) |-> Block_to_dict(c[i])],
     difficulty |-> d,
     pending_records |-> p]

\* the document of an earlier variant: one key is not there
WithoutKey(doc, k) == [x \in DOMAIN doc \ {k} |-> doc[x]]

\* Blockchain.from_dict: cls() builds and saves a new Blockchain, then the
\* three keys are read in turn; a key that is not there raises KeyError
from_dict(blockchain_dict, heap, t) ==
    LET blockchain == Blockchain(t)
        complete   == {"chain", "difficulty", "pending_records"}
                        \subseteq DOMAIN blockchain_dict
    IN  [raised |-> ~complete,
         file   |-> PickleOf(blockchain),
         value  |-> IF complete
                    THEN [chain |-> [i \in DOMAIN blockchain_dict["chain"] |->
                                       Block_from_dict(
                                         blockchain_dict["chain"][i], heap)],
                          difficulty |-> blockchain_dict["difficulty"],
                          pending_records |->
                              blockchain_dict["pending_records"],
                          objs |-> heap]
                    ELSE blockchain]

\* bc = Blockchain.from_dict(document)
call_from_dict(document) ==
    /\ pc = "idle"
    /\ LET r == from_dict(document, objs, now)
       IN  /\ file' = r.file
           /\ IF r.raised
              THEN /\ ret' = RaisedError("from_dict", "KeyError")
                   /\ UNCHANGED <<chain, difficulty, pending_records, objs>>
              ELSE /\ ret' = Returned("from_dict",
                                      [chain |-> r.value.chain])
                   /\ chain' = r.value.chain
                   /\ difficulty' = r.value.difficulty
                   /\ pending_records' = r.value.pending_records
                   /\ objs' = r.value.objs
    /\ UNCHANGED <<peer, backup, now, pc, new_block, entry>>

\* the document is the one to_dict has just made
call_from_dict_snapshot ==
    call_from_dict(to_dict(chain, difficulty, pending_records))

\* the document has chain and difficulty but no pending_records
call_from_dict_legacy ==
    call_from_dict(WithoutKey(to_dict(chain, difficulty, pending_records),
                              "pending_records"))

NextDocument ==
    \/ Tick
    \/ add_record_fresh
    \/ mine_pending_records_begin
    \/ mine_pending_records_search
    \/ mine_pending_records_commit
    \/ call_from_dict_snapshot
    \/ call_from_dict_legacy

SpecDocument == Init /\ [][NextDocument]_vars

(***************************************************************************)
(* SpecMine: Block.mine_block(difficulty) called on a block that has just  *)
(* been constructed, for the difficulties the two leading digits of the    *)
(* digest can meet.                                                        *)
(***************************************************************************)
Difficulties == 0..InitialDifficulty

\* block = Block(index, timestamp, records, previous_hash);
\* block.mine_block(d), for the one block the caller mines
call_mine_block ==
    /\ pc = "idle"
    /\ new_block = NoBlock
    /\ \E index \in 0..Len(pending_records),
          timestamp \in {0, now},
          records \in {<<>>, pending_records},
          previous_hash \in {GenesisPreviousHash, chain[1].hash},
          d \in Difficulties :
         LET block == Block(index, timestamp, records, previous_hash, objs)
         IN  /\ new_block' = mine_block(block, d, objs)
             /\ ret' = Returned("mine_block",
                                [difficulty |-> d, block |-> block])
    /\ UNCHANGED <<peer, backup, chain, difficulty, pending_records, objs, now,
                   file, pc, entry>>

NextMine ==
    \/ Tick
    \/ add_record_fresh
    \/ call_mine_block

SpecMine == Init /\ [][NextMine]_vars

(***************************************************************************)
(* SpecRegister: the patient registration form next to a session that      *)
(* submits and commits, with a snapshot file that may be missing when the  *)
(* form is sent.                                                           *)
(***************************************************************************)
\* show_register_form after patient.save(): when the snapshot file does not
\* exist, blockchain = Blockchain(); blockchain.add_genesis_block();
\* safe_save_pickle(blockchain, ...).  blockchain is a local of the form.
show_register_form ==
    /\ pc = "idle"
    /\ IF file.kind = "absent"
       THEN LET blockchain == Blockchain(now)
                again == [blockchain EXCEPT
                            !.chain = add_genesis_block(blockchain.chain,
                                                        blockchain.difficulty,
                                                        now, blockchain.objs)]
            IN  /\ file' = safe_save_pickle(again)
                /\ ret' = Returned("show_register_form",
                                   [chain |-> again.chain])
       ELSE /\ file' = file
            /\ ret' = Returned("show_register_form", [chain |-> <<>>])
    /\ UNCHANGED <<peer, backup, chain, difficulty, pending_records, objs, now, pc,
                   new_block, entry>>

NextRegister ==
    \/ Tick
    \/ add_record_fresh
    \/ mine_pending_records_begin
    \/ mine_pending_records_search
    \/ mine_pending_records_commit
    \/ corrupt_file
    \/ show_register_form
    \/ call_load

SpecRegister == Init /\ [][NextRegister]_vars

(***************************************************************************)
(* SpecForge: somebody rewrites a block of the snapshot file, recomputes   *)
(* its hash with calculate_hash and no mining, and relinks the blocks      *)
(* after it; a caller then loads the snapshot and validates it.            *)
(***************************************************************************)
\* the blocks from position i on, each linked to prev_hash and hashed
\* again with the nonce it has
RECURSIVE Relinked(_, _, _, _)
Relinked(c, i, prev_hash, heap) ==
    IF i > Len(c) THEN <<>>
    ELSE LET b1 == [c[i] EXCEPT !.previous_hash = prev_hash]
             b2 == [b1 EXCEPT !.hash = calculate_hash(b1, heap)]
         IN  <<b2>> \o Relinked(c, i + 1, b2.hash, heap)

\* block i gets another timestamp, then hashes and links are redone from
\* i to the tip
Forged(c, i, heap) ==
    LET changed == [c EXCEPT ![i].timestamp = @ + 1]
    IN  SubSeq(c, 1, i - 1)
          \o Relinked(changed, i, changed[i].previous_hash, heap)

\* the file forged is a snapshot the session wrote, every block mined
forge_file ==
    /\ pc = "idle"
    /\ file = Pickle(chain, difficulty, pending_records, objs)
    /\ \A i \in 2..Len(file.chain) : ~NeedsMining(file.chain[i], difficulty)
    /\ \E i \in 2..Len(file.chain) :
         file' = [file EXCEPT !.chain = Forged(file.chain, i, file.objs)]
    /\ ret' = Returned("forge_file", 0)
    /\ UNCHANGED <<peer, backup, chain, difficulty, pending_records, objs, now, pc,
                   new_block, entry>>

NextForge ==
    \/ Tick
    \/ add_record_fresh
    \/ mine_pending_records_begin
    \/ mine_pending_records_search
    \/ mine_pending_records_commit
    \/ forge_file
    \/ call_load
    \/ call_is_chain_valid

SpecForge == Init /\ [][NextForge]_vars

(***************************************************************************)
(* SpecSessions: two sessions of the application, each with its own        *)
(* Blockchain object in its session state, and the one snapshot file.      *)
(* The variables chain, difficulty, pending_records and objs are the       *)
(* object of the session whose script is running; peer is the object of    *)
(* the other session.                                                      *)
(***************************************************************************)
\* the work of both sessions
TotalWork ==
    Work(chain, pending_records, now)
      + (IF peer.chain = <<>> THEN 0
         ELSE Work(peer.chain, peer.pending_records, 0))

\* the Blockchain that initialize_session_state puts in the session state
\* (lines 140-151), the file read being the one the argument Blockchain()
\* has just written
SessionBlockchain(bk, t, outcome) ==
    LET default_value == Blockchain(t)
        loaded == safe_load_pickle(PickleOf(default_value), default_value,
                                   bk, t, outcome)
    IN  IF is_chain_valid(loaded.value.chain, loaded.value.objs)
        THEN loaded.value
        ELSE Blockchain(t)

\* a second browser session starts: initialize_session_state builds its
\* Blockchain and saves it
open_session ==
    /\ pc = "idle"
    /\ peer.chain = <<>>
    /\ \E outcome \in LoadOutcomes(PickleOf(Blockchain(now))) :
         /\ peer' = SessionBlockchain(backup, now, outcome)
         /\ file' = safe_save_pickle(peer')
    /\ ret' = Returned("open_session", [chain |-> peer'.chain])
    /\ UNCHANGED <<backup, chain, difficulty, pending_records, objs, now, pc,
                   new_block, entry>>

\* the script of the other session runs next
switch_session ==
    /\ pc = "idle"
    /\ peer.chain # <<>>
    /\ chain' = peer.chain
    /\ difficulty' = peer.difficulty
    /\ pending_records' = peer.pending_records
    /\ objs' = peer.objs
    /\ peer' = [chain |-> chain, difficulty |-> difficulty,
                pending_records |-> pending_records, objs |-> objs]
    /\ ret' = Returned("switch_session", 0)
    /\ UNCHANGED <<backup, now, file, new_block, entry, pc>>

sessions_Tick == TotalWork < MaxWork /\ Tick

sessions_add_record == TotalWork < MaxWork /\ add_record_fresh

sessions_mine_pending_records_begin ==
    TotalWork < MaxWork /\ mine_pending_records_begin

NextSessions ==
    \/ sessions_Tick
    \/ sessions_add_record
    \/ sessions_mine_pending_records_begin
    \/ mine_pending_records_search
    \/ mine_pending_records_commit
    \/ open_session
    \/ switch_session

SpecSessions == Init /\ [][NextSessions]_vars

(***************************************************************************)
(* Properties                                                              *)
(***************************************************************************)

\* a record carries a non-empty patient_id or a non-empty doctor_id
HasIdentity(v) ==
    \/ Get(v, "patient_id") \notin {None, ""}
    \/ Get(v, "doctor_id") \notin {None, ""}

\* the six fields of a block, its records by content
BlockValue(b, heap) == [b EXCEPT !.records = Deref(b.records, heap)]

\* C1 Linkage: in every reachable state, every block after the first
\* carries as previous_hash the stored hash of the block before it.
C1_Linkage ==
    \A i \in 2..Len(chain) : chain[i].previous_hash = chain[i-1].hash

C1_Witness == Len(chain) >= 3 /\ pc = "idle"

\* C2 Hash integrity: in every reachable state, every block's stored hash
\* equals the digest recomputed from its index, timestamp, records,
\* previous_hash and nonce.
C2_HashIntegrity ==
    \A i \in 1..Len(chain) : chain[i].hash = calculate_hash(chain[i], objs)

\* C3 Genesis: a freshly constructed Blockchain has exactly one block, of
\* index 0 and previous_hash "0", an empty queue, and is_chain_valid() is
\* True on it.
C3_Genesis ==
    ret.op = "__init__" =>
        /\ Len(chain) = 1
        /\ chain[1].index = 0
        /\ chain[1].previous_hash = <<0>>
        /\ pending_records = <<>>
        /\ is_chain_valid(chain, objs)

C3_Witness == ret.op = "__init__" /\ Len(chain) = 1 /\ chain[1].nonce > 0

\* C4 Proof of work: in every reachable state, the stored hash of every
\* block after the genesis block begins with `difficulty` characters '0'.
C4_ProofOfWork ==
    \A i \in 2..Len(chain) :
        /\ Len(chain[i].hash) >= difficulty
        /\ \A k \in 1..difficulty : chain[i].hash[k] = 0

C4_Witness ==
    /\ Len(chain) >= 3
    /\ \E i \in 2..Len(chain) : chain[i].nonce > 0
    /\ difficulty = 2

\* C5 Append-only: every step leaves the chain at least as long as it was
\* and every block it had with its six fields as they were, the records by
\* content.
C5_AppendOnly ==
    [][ /\ Len(chain') >= Len(chain)
        /\ \A i \in 1..Len(chain) :
              BlockValue(chain'[i], objs') = BlockValue(chain[i], objs)
      ]_vars

\* C6 Commit effect: a mine_pending_records that returns True appends to
\* the chain it was called on exactly one block, whose index is that
\* chain's length, whose previous_hash is the hash of that chain's tip and
\* whose records are the queue it was called on, in order; the queue is
\* empty afterwards. A call on a non-empty queue gets that far.
C6_CommitEffect ==
    [][ /\ (pc = "idle" /\ pc' = "mining") => pending_records # <<>>
        /\ (pc = "mining" /\ pc' = "idle" /\ ~ret'.raised) =>
              /\ entry.pending_records # <<>>
              /\ Len(chain') = Len(entry.chain) + 1
              /\ SubSeq(chain', 1, Len(entry.chain)) = entry.chain
              /\ chain'[Len(chain')].index = Len(entry.chain)
              /\ chain'[Len(chain')].previous_hash
                    = entry.chain[Len(entry.chain)].hash
              /\ chain'[Len(chain')].records = entry.pending_records
              /\ Deref(chain'[Len(chain')].records, objs')
                    = Deref(entry.pending_records, entry.objs)
              /\ pending_records' = <<>>
              /\ ret' = Returned("mine_pending_records", TRUE)
      ]_vars

C6_Witness ==
    /\ ret = Returned("mine_pending_records", TRUE)
    /\ Len(chain) >= 2
    /\ Len(chain[Len(chain)].records) = 2
    /\ chain[Len(chain)].records[1] # chain[Len(chain)].records[2]
    /\ pending_records = <<>>

\* C7 Empty commit: on an empty queue mine_pending_records starts no
\* mining, leaves chain, queue, heap and snapshot as they are and returns
\* False; so does every repetition.
C7_EmptyCommitNoOp ==
    [][ (pc = "idle" /\ pending_records = <<>>) =>
           /\ pc' = "idle"
           /\ ret'.op = "mine_pending_records" =>
                 /\ chain' = chain
                 /\ pending_records' = pending_records
                 /\ objs' = objs
                 /\ file' = file
                 /\ ret' = Returned("mine_pending_records", FALSE)
      ]_vars

C7_Witness ==
    /\ ret = Returned("mine_pending_records", FALSE)
    /\ Len(chain) >= 2
    /\ pending_records = <<>>

\* C8 Malformed submission: an add_record of a record with neither a
\* non-empty patient_id nor a non-empty doctor_id raises and leaves the
\* queue and the chain as they are.
C8_MalformedRejected ==
    [][ (pc = "idle" /\ ret'.op = "add_record"
           /\ ~HasIdentity(objs'[ret'.val.record])) =>
           /\ ret'.raised
           /\ pending_records' = pending_records
           /\ chain' = chain
      ]_vars

\* C9 Submit: an add_record of a record with an identity field makes it the
\* last element of the queue, keeps the earlier elements in their order,
\* keeps the chain's length and returns the old queue length plus one.
C9_SubmitAppends ==
    [][ (pc = "idle" /\ ret'.op = "add_record"
           /\ HasIdentity(objs'[ret'.val.record])) =>
           /\ ~ret'.raised
           /\ pending_records' = Append(pending_records, ret'.val.record)
           /\ Len(chain') = Len(chain)
           /\ ret'.val.len = Len(pending_records) + 1
      ]_vars

C9_Witness ==
    /\ ret.op = "add_record"
    /\ HasIdentity(objs[ret.val.record])
    /\ ret.val.len = 2
    /\ pending_records[1] # pending_records[2]

\* C10 Abandoned commit: at every step of the nonce search the chain, the
\* queue and the records are what they were when mine_pending_records was
\* called, and they still are when the call is abandoned.
C10_AbandonLeavesState ==
    [][ /\ pc = "mining" =>
              /\ chain = entry.chain
              /\ pending_records = entry.pending_records
              /\ objs = entry.objs
        /\ (pc = "mining" /\ pc' = "idle" /\ ret'.raised) =>
              /\ chain' = entry.chain
              /\ pending_records' = entry.pending_records
              /\ objs' = entry.objs
      ]_vars

C10_Witness ==
    /\ ret = Raised("mine_pending_records")
    /\ pc = "idle"
    /\ pending_records # <<>>
    /\ Len(chain) >= 2

\* the call that has just returned is a mine_pending_records that the
\* exception of its save left
SaveFailed(r) ==
    /\ r.op = "mine_pending_records"
    /\ "exc" \in DOMAIN r
    /\ r.exc = "OSError"

\* C11 Persistence failure: when save fails inside mine_pending_records,
\* the mined block is the tip of the chain the call began with, the queue
\* is empty and not restored, the chain is valid if it was, and the object
\* is ready for further calls.
C11_SaveFailureKeepsCommit ==
    [][ (pc = "mining" /\ SaveFailed(ret')) =>
           /\ chain' = Append(entry.chain, new_block)
           /\ chain'[Len(chain')].records = entry.pending_records
           /\ entry.pending_records # <<>>
           /\ pending_records' = <<>>
           /\ pc' = "idle"
           /\ is_chain_valid(entry.chain, entry.objs)
                 => is_chain_valid(chain', objs')
      ]_vars

C11_Witness ==
    /\ SaveFailed(ret)
    /\ Len(chain) >= 2
    /\ pending_records = <<>>
    /\ is_chain_valid(chain, objs)
    /\ file # Pickle(chain, difficulty, pending_records, objs)

\* C16 Atomic save: every step leaves the file at the snapshot path either
\* as it was or holding the complete snapshot of the object.
C16_AtomicSave ==
    [][ \/ file' = file
        \/ file' = Pickle(chain', difficulty', pending_records', objs')
      ]_vars

\* C12 Tamper detection: once any one field of any stored block, the
\* genesis block and the tip included, has been changed without remining,
\* is_chain_valid() returns False.
C12_TamperDetected ==
    (pc = "tampered" /\ ret.op = "is_chain_valid") => ret.val = FALSE

\* C13 Genesis hash check: is_chain_valid() returns False when the stored
\* hash of the genesis block differs from the digest of its stored fields,
\* whatever the length of the chain.
C13_GenesisHashChecked ==
    (/\ pc = "tampered"
     /\ ret.op = "is_chain_valid"
     /\ chain[1].hash # calculate_hash(chain[1], objs)) => ret.val = FALSE

\* C14 Read-only audit and queries: is_chain_valid, get_records_for_patient
\* and get_records_for_doctor leave the chain, the records, the queue, the
\* difficulty and the snapshot file as they are, whatever they return.
C14_ReadOnly ==
    [][ (pc = "idle"
           /\ ret'.op \in {"is_chain_valid", "get_records_for_patient",
                            "get_records_for_doctor"}) =>
           /\ chain' = chain
           /\ objs' = objs
           /\ pending_records' = pending_records
           /\ difficulty' = difficulty
           /\ file' = file
           /\ backup' = backup
      ]_vars

C14_Witness ==
    /\ ret = Returned("is_chain_valid", FALSE)
    /\ Len(chain) >= 2

\* the places <<block, position>> of the committed records
CommittedAt(c) ==
    UNION { { <<i, j>> : j \in 1..Len(c[i].records) } : i \in 1..Len(c) }

\* chain order: ascending block, then position in the block
Before(a, b) == a[1] < b[1] \/ (a[1] = b[1] /\ a[2] < b[2])

\* the committed places whose record has the identifier under the key
MatchSet(key, id) ==
    { pos \in CommittedAt(chain) :
        LET v == objs[chain[pos[1]].records[pos[2]]]
        IN  key \in DOMAIN v /\ v[key] = id }

\* result is exactly the records at MatchSet, in chain order, each with
\* the index, hash and timestamp of its block added
IsQueryAnswer(result, key, id) ==
    LET S == MatchSet(key, id)
    IN  /\ Len(result) = Cardinality(S)
        /\ \A pos \in S :
              LET k == Cardinality({ q \in S : Before(q, pos) }) + 1
                  b == chain[pos[1]]
                  v == objs[b.records[pos[2]]]
                  r == result[k]
              IN  /\ DOMAIN r = DOMAIN v \cup {"block_index", "block_hash",
                                                "block_timestamp"}
                  /\ \A x \in DOMAIN v : r[x] = v[x]
                  /\ r["block_index"] = b.index
                  /\ r["block_hash"] = b.hash
                  /\ r["block_timestamp"] = b.timestamp
                  /\ b.index > 0

\* C15 Query correctness: get_records_for_patient(p) is exactly the
\* committed records whose patient_id is p, in chain order, each decorated
\* with its block's index, hash and timestamp; nothing from the queue or the
\* genesis block; get_records_for_doctor likewise on doctor_id.
C15_QueryCorrect ==
    /\ \A p \in PatientIds :
          IsQueryAnswer(get_records_for_patient(chain, objs, p),
                        "patient_id", p)
    /\ \A d \in DoctorIds :
          IsQueryAnswer(get_records_for_doctor(chain, objs, d),
                        "doctor_id", d)

C15_Witness ==
    /\ ret.op = "get_records_for_patient"
    /\ Len(ret.val) = 2
    /\ ret.val[1] # ret.val[2]
    /\ Len(chain) = 2
    /\ pending_records # <<>>
    /\ "patient_id" \in DOMAIN objs[pending_records[1]]

\* the chain is a valid chain of the genesis block alone
GenesisOnly(c, heap) ==
    /\ Len(c) = 1
    /\ c[1].index = GenesisIndex
    /\ c[1].previous_hash = GenesisPreviousHash
    /\ c[1].hash = calculate_hash(c[1], heap)
    /\ is_chain_valid(c, heap)

\* C17 A persisted chain survives a restart: when the snapshot holds a valid
\* chain of n > 1 blocks, initialize_session_state or the welcome page ends
\* with a chain of the same n blocks and hashes in memory, and the snapshot
\* file still holds those n blocks.
C17_RestartKeepsChain ==
    [][ (/\ ret'.op \in {"initialize_session_state", "welcome_page"}
         /\ file.kind = "pickle"
         /\ Len(file.chain) > 1
         /\ is_chain_valid(file.chain, file.objs)) =>
           /\ Len(ret'.val.chain) = Len(file.chain)
           /\ \A i \in 1..Len(file.chain) :
                ret'.val.chain[i].hash = file.chain[i].hash
           /\ file'.kind = "pickle"
           /\ file'.chain = file.chain
      ]_vars

C19_CorruptionRecovery ==
    [][ (/\ ret'.op \in {"load", "initialize_session_state"}
         /\ file.kind \in {"garbage", "truncated"}) =>
           /\ ~ret'.raised
           /\ GenesisOnly(chain', objs')
           /\ \E b \in backup' : b.content = file
      ]_vars

\* C20 Tampered snapshot is quarantined: when the snapshot parses but its
\* chain fails is_chain_valid(), session initialisation ends with a fresh
\* genesis-only chain and the tampered content is kept under a backup path.
C20_TamperedQuarantined ==
    [][ (/\ ret'.op = "initialize_session_state"
         /\ file.kind = "pickle"
         /\ ~is_chain_valid(file.chain, file.objs)) =>
           /\ GenesisOnly(chain', objs')
           /\ pending_records' = <<>>
           /\ \E b \in backup' : b.content = file
      ]_vars

\* C21 Load with no snapshot: when the snapshot file does not exist or is
\* empty, load returns a new chain of the genesis block alone, with an empty
\* pending queue, and raises nothing; safe_load_pickle returns the new
\* Blockchain it was given as its default.
C21_LoadNoSnapshot ==
    [][ (ret'.op = "load" /\ file.kind \in {"absent", "empty"}) =>
           /\ ~ret'.raised
           /\ GenesisOnly(chain', objs')
           /\ chain'[1].timestamp = now
           /\ pending_records' = <<>>
           /\ \A outcome \in LoadOutcomes(file) :
                safe_load_pickle(file, Blockchain(now), backup, now,
                                 outcome).value = Blockchain(now)
      ]_vars

C21_Witness ==
    /\ ret.op = "load"
    /\ ~ret.raised
    /\ Len(chain) = 1
    /\ chain[1].timestamp = now
    /\ now > 0
    /\ pending_records = <<>>

\* C22 Snapshot equals memory after commit: when mine_pending_records
\* commits a block and its save succeeds, the snapshot file holds exactly
\* the chain in memory (all blocks in order, with their records), the
\* difficulty and the empty pending queue.
C22_SnapshotEqualsMemory ==
    [][ (pc = "mining" /\ ret' = Returned("mine_pending_records", TRUE)) =>
           /\ file'.kind = "pickle"
           /\ Len(chain') = Len(chain) + 1
           /\ Unpickle(file').chain = chain'
           /\ \A i \in 1..Len(chain') :
                Deref(file'.chain[i].records, file'.objs)
                  = Deref(chain'[i].records, objs')
           /\ Unpickle(file').difficulty = difficulty'
           /\ Unpickle(file').pending_records = <<>>
           /\ pending_records' = <<>>
      ]_vars

C22_Witness ==
    /\ ret = Returned("mine_pending_records", TRUE)
    /\ Len(chain) = 3
    /\ file.kind = "pickle"
    /\ Len(file.chain) = 3

\* C23 Backward-compatible read: building a chain from a document that has
\* chain and difficulty but no pending_records succeeds and gives the
\* document's chain and difficulty with an empty pending queue.
C23_BackwardCompatibleRead ==
    LET document == WithoutKey(to_dict(chain, difficulty, pending_records),
                               "pending_records")
        r == from_dict(document, objs, now)
    IN  /\ ~r.raised
        /\ r.value.chain = chain
        /\ r.value.difficulty = difficulty
        /\ r.value.pending_records = <<>>

\* the digest of the block with the nonce n meets the difficulty d
MeetsAt(b, n, d, heap) ==
    LET digest == calculate_hash([b EXCEPT !.nonce = n], heap)
    IN  \A k \in 1..d : k <= Len(digest) /\ digest[k] = 0

\* C24 Mining finds the least nonce: mine_block(difficulty) ends with the
\* nonce the smallest n >= 0 whose digest has difficulty leading zeros and
\* with the hash that digest; with difficulty 0 it returns at once, nonce 0
\* and hash unchanged.
C24_LeastNonce ==
    ret.op = "mine_block" =>
        LET d     == ret.val.difficulty
            block == ret.val.block
        IN  /\ MeetsAt(block, new_block.nonce, d, objs)
            /\ \A n \in 0..(new_block.nonce - 1) :
                  ~MeetsAt(block, n, d, objs)
            /\ new_block.hash
                  = calculate_hash([block EXCEPT !.nonce = new_block.nonce],
                                   objs)
            /\ new_block = [block EXCEPT !.nonce = new_block.nonce,
                                         !.hash = new_block.hash]
            /\ d = 0 => new_block = block

C24_Witness ==
    /\ ret.op = "mine_block"
    /\ ret.val.difficulty = InitialDifficulty
    /\ new_block.nonce >= 2
    /\ new_block.records # <<>>

\* one block has the sentinel as its previous_hash, and it is the first
ExactlyOneGenesis(c) ==
    /\ c # <<>>
    /\ c[1].previous_hash = GenesisPreviousHash
    /\ \A i \in 2..Len(c) : c[i].previous_hash # GenesisPreviousHash

\* C25 Exactly one genesis: in every reachable state, the registration path
\* included, a chain (in memory or in the snapshot) has exactly one block
\* whose previous_hash is the sentinel "0", at position 0.
C25_ExactlyOneGenesis ==
    /\ ExactlyOneGenesis(chain)
    /\ file.kind = "pickle" => ExactlyOneGenesis(file.chain)
    /\ (ret.op = "show_register_form" /\ ret.val.chain # <<>>)
          => ExactlyOneGenesis(ret.val.chain)

\* the block at position i has index i (positions from 0)
IndexedByPosition(c) == \A i \in 1..Len(c) : c[i].index = i - 1

\* C26 Index invariant: in every reachable state the block at position i of
\* a chain (in memory, in the snapshot, or built by the registration form)
\* has index i: from 0 at the genesis block, no gaps, no duplicates.
C26_IndexInvariant ==
    /\ IndexedByPosition(chain)
    /\ file.kind = "pickle" => IndexedByPosition(file.chain)
    /\ ret.op = "show_register_form" => IndexedByPosition(ret.val.chain)

\* the records of the blocks of c in chain order, one after the other
RECURSIVE Concatenated(_)
Concatenated(c) ==
    IF c = <<>> THEN <<>> ELSE Head(c).records \o Concatenated(Tail(c))

\* the records of blocks 1..n in chain order, followed by the queue
Conserved(c, p) == Concatenated(Tail(c)) \o p

\* C27 Record conservation: the records of blocks 1..n in chain order
\* followed by pending_records are the submitted records in submission
\* order.  A submit adds its record at the end, as it was submitted, and
\* nothing else changes the sequence or the content of the records in it.
C27_RecordConservation ==
    [][ LET before == Conserved(chain, pending_records)
            after  == Conserved(chain', pending_records')
        IN  /\ IF pc = "idle" /\ ret'.op = "add_record"
               THEN /\ after = Append(before, ret'.val.record)
                    /\ Deref(after, objs')
                         = Append(Deref(before, objs),
                                  objs'[ret'.val.record])
               ELSE /\ after = before
                    /\ Deref(after, objs') = Deref(before, objs)
      ]_vars

\* C28 Submit does not touch committed data: add_record leaves every
\* committed block as it was in all six fields and in the content of its
\* records, also when the dict passed in was committed in an earlier
\* block; is_chain_valid gives the same result before and after.
C28_SubmitLeavesCommitted ==
    [][ (pc = "idle" /\ ret'.op = "add_record") =>
           /\ chain' = chain
           /\ \A i \in 1..Len(chain) :
                Deref(chain'[i].records, objs') = Deref(chain[i].records, objs)
           /\ is_chain_valid(chain', objs') = is_chain_valid(chain, objs)
      ]_vars

\* C29 Validation implies proof-of-work: on a chain loaded from a parseable
\* snapshot, is_chain_valid() True means every non-genesis block's hash has
\* at least difficulty leading zeros; a block changed and hashed again
\* without mining, its successors relinked, is not accepted.
C29_ValidImpliesProofOfWork ==
    (ret.op = "is_chain_valid" /\ ret.val = TRUE) =>
        \A i \in 2..Len(chain) :
            Prefix(chain[i].hash, difficulty) = Zeros(difficulty)

\* the snapshot c holds a block with the records of block b
HoldsBlock(c, heap, b, bheap) ==
    \E k \in 2..Len(c) :
        Deref(c[k].records, heap) = Deref(b.records, bheap)

\* both sessions started from one snapshot and each has committed one
\* block of its own
EachCommittedOne ==
    /\ pc = "idle"
    /\ Len(chain) >= 2
    /\ Len(peer.chain) = Len(chain)
    /\ SubSeq(peer.chain, 1, Len(chain) - 1) = SubSeq(chain, 1, Len(chain) - 1)
    /\ Deref(peer.chain[Len(chain)].records, peer.objs)
         # Deref(chain[Len(chain)].records, objs)

\* C30 No lost blocks across sessions: when two sessions, each with its
\* own Blockchain from the same snapshot, have each committed one block,
\* the snapshot file holds both blocks in a chain that passes
\* is_chain_valid.
C30_NoLostBlocks ==
    EachCommittedOne =>
        /\ file.kind = "pickle"
        /\ HoldsBlock(file.chain, file.objs, chain[Len(chain)], objs)
        /\ HoldsBlock(file.chain, file.objs, peer.chain[Len(chain)],
                      peer.objs)
        /\ is_chain_valid(file.chain, file.objs)

====
